---- MODULE Spec2Model ----
(***************************************************************************)
(* The vehicle garage contract (src/vehicleGarage/assembly): a registry of *)
(* owners, contributors and vehicles, and the two promise chains that      *)
(* create and delete the vehicles' child accounts.                         *)
(*                                                                         *)
(* One action per exported function.  A call that fails an assert panics   *)
(* and leaves the contract state as it was; `last` records the call that   *)
(* was just made, its arguments and what the caller got back.              *)
(***************************************************************************)
EXTENDS Integers, Sequences, FiniteSets, Bags

VARIABLES
    storage,       \* the key-value storage: key -> VehicleGarage
    owners,        \* PersistentSet<AccountId>("o")
    contributors,  \* PersistentSet<AccountId>("c")
    vehicles,      \* PersistentSet<AccountId>("v")
    promises,      \* bag of the promise chains this contract dispatched
    last           \* the last call: function, caller, arguments, outcome

vars == <<storage, owners, contributors, vehicles, promises, last>>
registry == <<storage, owners, contributors, vehicles>>

----------------------------------------------------------------------------
(* Bounds of the model *)

MaxInFlight == 1     \* promise chains in flight at once
MaxOwnersLen == 2    \* length of the owners argument of init
MaxTimestamp == 1    \* block timestamps 1..MaxTimestamp
MaxRequests == 2     \* chains dispatched in all, where the finished ones are kept

----------------------------------------------------------------------------
(* Constants of utils.ts and of the execution context *)

MIN_ACCOUNT_BALANCE == 3
VEHICLE_KEY == "state"
VEHICLE_GARAGE_KEY == "state"

contractName == <<"g">>
alice == <<"a", "l">>
bob == <<"b", "o">>
car1 == <<"c", "1">>
car1sub == <<"c", "1", ".", "g">>
car2 == <<"c", "2">>
badcar == <<"C", "!">>

Callers == {alice, bob}
VehicleNames == {car1, badcar}
CallbackNames == {car1, car1sub}
GarageNames == {<<>>, <<"n">>, <<"m">>}

\* who runs a function that does not read context.predecessor
NoCaller == <<>>
\* a callback run for an account other than the contract itself
External == <<"x">>
Deposits == {MIN_ACCOUNT_BALANCE - 1, MIN_ACCOUNT_BALANCE}
Timestamps == 1..MaxTimestamp
OwnerLists == UNION {[1..n -> Callers] : n \in 0..MaxOwnersLen}
StatusValues == 0..3

Range(s) == {s[i] : i \in DOMAIN s}

----------------------------------------------------------------------------
(* Messages of the asserts *)

OK == "ok"
ERR_ALREADY_INITIALIZED == "Contract is already initialized."
ERR_NOT_INITIALIZED == "Contract must be initialized first."
ERR_MIN_BALANCE_INIT == "Minimum account balance must be attached to initialize this contract (3 NEAR)"
ERR_MIN_BALANCE_VEHICLE == "Minimum account balance must be attached to initialize a vehicle (3 NEAR)"
ERR_NO_OWNER == "Must specify at least 1 owner"
ERR_BLANK_NAME == "VehicleGarage name may not be blank"
ERR_NOT_OWNER == "This method can only be called by a VehicleGarage owner"
ERR_NOT_CONTRIBUTOR_OR_OWNER == "This method can only be called by a VehicleGarage contributor or owner"
ERR_INVALID_ACCOUNT == "Vehicle name must be valid NEAR account name"
ERR_VEHICLE_EXISTS == "Vehicle name already exists"
ERR_INDEX_OUT_OF_RANGE == "Index out of range"
ERR_HOST_INVALID_ACCOUNT == "InvalidAccountId"

----------------------------------------------------------------------------
(* The platform: account identifiers *)

LowerAlnum == {"a", "b", "c", "g", "l", "m", "n", "o", "0", "1", "2"}
Separators == {".", "-", "_"}

\* env.isValidAccountID: 2 to 64 characters, lowercase letters and digits
\* in parts separated by single separators, no separator first or last.
isValidAccountID(id) ==
    /\ Len(id) >= 2
    /\ Len(id) <= 64
    /\ \A i \in 1..Len(id) : id[i] \in LowerAlnum \cup Separators
    /\ id[1] \notin Separators
    /\ id[Len(id)] \notin Separators
    /\ \A i \in 1..(Len(id) - 1) : ~(id[i] \in Separators /\ id[i + 1] \in Separators)

full_account_for(vehicle) == vehicle \o <<".">> \o contractName

----------------------------------------------------------------------------
(* models.ts: VehicleGarage and the three persistent sets *)

VehicleGarage(name, blockTimestamp) == [name |-> name, created_at |-> blockTimestamp]
NoGarage == [name |-> <<>>, created_at |-> 0]

VehicleGarage_set(garage) ==
    [k \in DOMAIN storage \cup {VEHICLE_GARAGE_KEY} |->
        IF k = VEHICLE_GARAGE_KEY THEN garage ELSE storage[k]]

VehicleGarage_get == storage[VEHICLE_GARAGE_KEY]

\* PersistentSet.delete of the storage substrate: deleting an item that is
\* not in the set leaves the set as it is and is no error.
PersistentSet_delete(set, item) == set \ {item}

RECURSIVE AddAll(_, _, _)
AddAll(set, list, i) ==
    IF i > Len(list) THEN set ELSE AddAll(set \cup {list[i]}, list, i + 1)

\* a loop that starts one element late
VehicleGarage_create_owners_skip_first(new_owners) == AddAll(owners, new_owners, 2)

VehicleGarage_create_owners(new_owners) == AddAll(owners, new_owners, 1)

\* the full account name stored in place of the name given
VehicleGarage_add_vehicle_full(accountId) == vehicles \cup {full_account_for(accountId)}

VehicleGarage_add_vehicle(accountId) == vehicles \cup {accountId}
VehicleGarage_remove_vehicle(accountId) == PersistentSet_delete(vehicles, accountId)
VehicleGarage_has_vehicle(accountId) == accountId \in vehicles
VehicleGarage_get_vehicles_list == vehicles
VehicleGarage_get_vehicles_count == Cardinality(vehicles)

\* an addition that lets every caller in
VehicleGarage_add_contributor_everyone(account) == contributors \cup Callers

VehicleGarage_add_contributor(account) == contributors \cup {account}
\* a removal that deletes nothing
VehicleGarage_remove_contributor_kept(account) == contributors

VehicleGarage_remove_contributor(account) == PersistentSet_delete(contributors, account)
VehicleGarage_is_contributor(account) == account \in contributors

\* an addition that takes out an account that is already in
VehicleGarage_add_owner_toggle(account) ==
    IF account \in owners THEN owners \ {account} ELSE owners \cup {account}

VehicleGarage_add_owner(account) == owners \cup {account}
\* a removal that keeps the last owner
VehicleGarage_remove_owner_floor(account) ==
    IF owners = {account} THEN owners ELSE PersistentSet_delete(owners, account)

VehicleGarage_remove_owner(account) == PersistentSet_delete(owners, account)
VehicleGarage_has_owner(account) == account \in owners
VehicleGarage_get_owner_list == owners

----------------------------------------------------------------------------
(* index.ts: private functions *)

\* the flag read under a key that VehicleGarage.set never writes
is_initialized_other_key == "vehicle" \in DOMAIN storage

is_initialized == VEHICLE_KEY \in DOMAIN storage
is_owner(predecessor) == VehicleGarage_has_owner(predecessor)
is_contributor(predecessor) == VehicleGarage_is_contributor(predecessor)
\* the wrong guard: a contributor passes as an owner
assert_signed_by_owner_or_contributor(predecessor) ==
    is_owner(predecessor) \/ is_contributor(predecessor)

assert_signed_by_owner(predecessor) == is_owner(predecessor)
\* the guard left out
assert_signed_by_anyone(predecessor) == TRUE

assert_signed_by_contributor_or_owner(predecessor) ==
    is_contributor(predecessor) \/ is_owner(predecessor)

----------------------------------------------------------------------------
(* The record of a call: the function, context.predecessor, the account   *)
(* or vehicle it was given, and what the caller got back.                 *)
(*   owners_arg  the owners a successful init was given                   *)
(*   deposit     context.attachedDeposit of add_vehicle                   *)
(*   status      results[0].status of a callback                          *)
(*   was         whether arg was in the set concerned before the call:   *)
(*               contributors, or vehicles for on_vehicle_removed         *)
(*   follows     the call comes right after its counterpart: a            *)
(*               get_owner_list after a successful init (owners_arg is    *)
(*               that init's), a successful removal of a contributor      *)
(*               after a successful addition of the same account          *)
(*               (was_before is that addition's was)                      *)
(*   list, count, garage   what a getter returned                         *)

Call(op, caller, arg, result) ==
    [op |-> op, caller |-> caller, arg |-> arg, result |-> result,
     owners_arg |-> <<>>, deposit |-> 0, status |-> 0,
     was |-> FALSE, follows |-> FALSE, was_before |-> FALSE,
     list |-> {}, count |-> 0, garage |-> NoGarage]

AddContributorOps == {"add_contributor", "add_myself_as_contributor"}
RemoveContributorOps == {"remove_contributor", "remove_myself_as_contributor"}

FollowsInit == last.op = "init" /\ last.result = OK
FollowsAdd(account) ==
    last.op \in AddContributorOps /\ last.result = OK /\ last.arg = account

Chain(method, vehicle, status) ==
    [method |-> method, vehicle |-> vehicle, status |-> status]

InFlight == BagCardinality(promises)
\* a batch with no callback chained to it
Dispatch_no_callback(chain) == promises

Dispatch(chain) == promises (+) SetToBag({chain})
Take(chain) == promises (-) SetToBag({chain})

----------------------------------------------------------------------------
(* index.ts: what each exported function answers.  The asserts are tried  *)
(* in the order of the code; the first one that fails is the answer.      *)

\* init without the assert that the contract is not initialized yet
init_result_again(attachedDeposit, name, new_owners) ==
    IF attachedDeposit < MIN_ACCOUNT_BALANCE THEN ERR_MIN_BALANCE_INIT
    ELSE IF ~(Len(new_owners) > 0) THEN ERR_NO_OWNER
    ELSE IF ~(Len(name) > 0) THEN ERR_BLANK_NAME
    ELSE OK

init_result(attachedDeposit, name, new_owners) ==
    IF is_initialized THEN ERR_ALREADY_INITIALIZED
    ELSE IF attachedDeposit < MIN_ACCOUNT_BALANCE THEN ERR_MIN_BALANCE_INIT
    ELSE IF ~(Len(new_owners) > 0) THEN ERR_NO_OWNER
    ELSE IF ~(Len(name) > 0) THEN ERR_BLANK_NAME
    ELSE OK

assert_contract_is_initialized == IF is_initialized THEN OK ELSE ERR_NOT_INITIALIZED

owner_call_result(predecessor) ==
    IF ~is_initialized THEN ERR_NOT_INITIALIZED
    ELSE IF ~assert_signed_by_owner(predecessor) THEN ERR_NOT_OWNER
    ELSE OK

add_vehicle_result(predecessor, attachedDeposit, vehicle) ==
    IF ~is_initialized THEN ERR_NOT_INITIALIZED
    ELSE IF ~assert_signed_by_contributor_or_owner(predecessor)
        THEN ERR_NOT_CONTRIBUTOR_OR_OWNER
    ELSE IF attachedDeposit < MIN_ACCOUNT_BALANCE THEN ERR_MIN_BALANCE_VEHICLE
    ELSE IF ~isValidAccountID(full_account_for(vehicle)) THEN ERR_INVALID_ACCOUNT
    ELSE IF VehicleGarage_has_vehicle(full_account_for(vehicle)) THEN ERR_VEHICLE_EXISTS
    ELSE OK

\* remove_vehicle behind the guard of add_vehicle
remove_vehicle_result_contributor(predecessor, vehicle) ==
    IF ~is_initialized THEN ERR_NOT_INITIALIZED
    ELSE IF ~assert_signed_by_contributor_or_owner(predecessor) THEN ERR_NOT_OWNER
    ELSE IF ~isValidAccountID(full_account_for(vehicle)) THEN ERR_HOST_INVALID_ACCOUNT
    ELSE OK

remove_vehicle_result(predecessor, vehicle) ==
    IF owner_call_result(predecessor) # OK THEN owner_call_result(predecessor)
    ELSE IF ~isValidAccountID(full_account_for(vehicle)) THEN ERR_HOST_INVALID_ACCOUNT
    ELSE OK

\* results[0] of an empty ContractPromise.getResults() is out of range.
on_vehicle_created_result(results) ==
    IF Len(results) = 0 THEN ERR_INDEX_OUT_OF_RANGE ELSE OK

\* the callback without the switch: the vehicle is added whatever the status
on_vehicle_created_vehicles_unchecked(vehicle, results) ==
    IF Len(results) = 0 THEN vehicles ELSE VehicleGarage_add_vehicle(vehicle)

\* the switch with the cases of success and failure exchanged
on_vehicle_created_vehicles_swapped(vehicle, results) ==
    IF Len(results) = 0 THEN vehicles
    ELSE IF results[1] = 0 THEN vehicles
    ELSE IF results[1] = 1 THEN vehicles
    ELSE IF results[1] = 2 THEN VehicleGarage_add_vehicle(vehicle)
    ELSE vehicles

\* a success that overwrites the set with the one vehicle
on_vehicle_created_vehicles_alone(vehicle, results) ==
    IF Len(results) = 0 THEN vehicles
    ELSE IF results[1] = 1 THEN {vehicle}
    ELSE vehicles

\* a switch that takes every settled result for a success
on_vehicle_created_vehicles_settled(vehicle, results) ==
    IF Len(results) = 0 THEN vehicles
    ELSE IF results[1] \in {1, 2} THEN VehicleGarage_add_vehicle(vehicle)
    ELSE vehicles

\* a callback that looks at the roles again: nothing is added once owners
\* is empty
on_vehicle_created_vehicles_guarded(vehicle, results) ==
    IF Len(results) = 0 THEN vehicles
    ELSE IF results[1] = 1 /\ owners # {} THEN VehicleGarage_add_vehicle(vehicle)
    ELSE vehicles

\* the switch on results[0].status
on_vehicle_created_vehicles(vehicle, results) ==
    IF Len(results) = 0 THEN vehicles
    ELSE IF results[1] = 0 THEN vehicles
    ELSE IF results[1] = 1 THEN VehicleGarage_add_vehicle(vehicle)
    ELSE IF results[1] = 2 THEN vehicles
    ELSE vehicles

\* the callback that only logs
on_vehicle_removed_vehicles_kept(vehicle) == vehicles
\* a callback that empties the set
on_vehicle_removed_vehicles_all(vehicle) == {}

on_vehicle_removed_vehicles(vehicle) == VehicleGarage_remove_vehicle(vehicle)


----------------------------------------------------------------------------
(* index.ts: the exported functions *)

init(attachedDeposit, blockTimestamp, name, new_owners) ==
    LET result == init_result(attachedDeposit, name, new_owners) IN
    /\ last' = [Call("init", NoCaller, <<>>, result) EXCEPT
                   !.owners_arg = IF result = OK THEN new_owners ELSE <<>>]
    /\ IF result = OK
       THEN /\ storage' = VehicleGarage_set(VehicleGarage(name, blockTimestamp))
            /\ owners' = VehicleGarage_create_owners(new_owners)
       ELSE UNCHANGED <<storage, owners>>
    /\ UNCHANGED <<contributors, vehicles, promises>>

get_vehicle_garage ==
    LET result == assert_contract_is_initialized IN
    /\ last' = [Call("get_vehicle_garage", NoCaller, <<>>, result) EXCEPT
                   !.garage = IF result = OK THEN VehicleGarage_get ELSE NoGarage]
    /\ UNCHANGED <<storage, owners, contributors, vehicles, promises>>

get_owner_list ==
    LET result == assert_contract_is_initialized IN
    /\ last' = [Call("get_owner_list", NoCaller, <<>>, result) EXCEPT
                   !.list = IF result = OK THEN VehicleGarage_get_owner_list ELSE {},
                   !.follows = FollowsInit,
                   !.owners_arg = IF FollowsInit THEN last.owners_arg ELSE <<>>]
    /\ UNCHANGED <<storage, owners, contributors, vehicles, promises>>

get_vehicle_list ==
    LET result == assert_contract_is_initialized IN
    /\ last' = [Call("get_vehicle_list", NoCaller, <<>>, result) EXCEPT
                   !.list = IF result = OK THEN VehicleGarage_get_vehicles_list ELSE {}]
    /\ UNCHANGED <<storage, owners, contributors, vehicles, promises>>

get_vehicle_count ==
    LET result == assert_contract_is_initialized IN
    /\ last' = [Call("get_vehicle_count", NoCaller, <<>>, result) EXCEPT
                   !.count = IF result = OK THEN VehicleGarage_get_vehicles_count ELSE 0]
    /\ UNCHANGED <<storage, owners, contributors, vehicles, promises>>

add_myself_as_contributor(predecessor) ==
    LET result == assert_contract_is_initialized IN
    /\ last' = [Call("add_myself_as_contributor", predecessor, predecessor, result)
                   EXCEPT !.was = VehicleGarage_is_contributor(predecessor)]
    /\ contributors' = IF result = OK
                       THEN VehicleGarage_add_contributor(predecessor)
                       ELSE contributors
    /\ UNCHANGED <<storage, owners, vehicles, promises>>

remove_myself_as_contributor(predecessor) ==
    LET result == assert_contract_is_initialized IN
    /\ last' = [Call("remove_myself_as_contributor", predecessor, predecessor, result)
                   EXCEPT !.was = VehicleGarage_is_contributor(predecessor),
                          !.follows = result = OK /\ FollowsAdd(predecessor),
                          !.was_before = result = OK /\ FollowsAdd(predecessor) /\ last.was]
    /\ contributors' = IF result = OK
                       THEN VehicleGarage_remove_contributor(predecessor)
                       ELSE contributors
    /\ UNCHANGED <<storage, owners, vehicles, promises>>

add_vehicle(predecessor, attachedDeposit, vehicle) ==
    LET result == add_vehicle_result(predecessor, attachedDeposit, vehicle) IN
    /\ last' = [Call("add_vehicle", predecessor, vehicle, result)
                   EXCEPT !.deposit = attachedDeposit]
    /\ promises' = IF result = OK
                   THEN Dispatch(Chain("on_vehicle_created", vehicle, 0))
                   ELSE promises
    /\ UNCHANGED <<storage, owners, contributors, vehicles>>

on_vehicle_created(origin, vehicle, results) ==
    /\ last' = [Call("on_vehicle_created", origin, vehicle,
                     on_vehicle_created_result(results))
                   EXCEPT !.status = IF Len(results) = 0 THEN 0 ELSE results[1]]
    /\ vehicles' = on_vehicle_created_vehicles(vehicle, results)
    /\ UNCHANGED <<storage, owners, contributors>>

add_contributor(predecessor, account) ==
    LET result == owner_call_result(predecessor) IN
    /\ last' = [Call("add_contributor", predecessor, account, result)
                   EXCEPT !.was = VehicleGarage_is_contributor(account)]
    /\ contributors' = IF result = OK
                       THEN VehicleGarage_add_contributor(account)
                       ELSE contributors
    /\ UNCHANGED <<storage, owners, vehicles, promises>>

remove_contributor(predecessor, account) ==
    LET result == owner_call_result(predecessor) IN
    /\ last' = [Call("remove_contributor", predecessor, account, result)
                   EXCEPT !.was = VehicleGarage_is_contributor(account),
                          !.follows = result = OK /\ FollowsAdd(account),
                          !.was_before = result = OK /\ FollowsAdd(account) /\ last.was]
    /\ contributors' = IF result = OK
                       THEN VehicleGarage_remove_contributor(account)
                       ELSE contributors
    /\ UNCHANGED <<storage, owners, vehicles, promises>>

add_owner(predecessor, account) ==
    LET result == owner_call_result(predecessor) IN
    /\ last' = Call("add_owner", predecessor, account, result)
    /\ owners' = IF result = OK THEN VehicleGarage_add_owner(account) ELSE owners
    /\ UNCHANGED <<storage, contributors, vehicles, promises>>

remove_owner(predecessor, account) ==
    LET result == owner_call_result(predecessor) IN
    /\ last' = Call("remove_owner", predecessor, account, result)
    /\ owners' = IF result = OK THEN VehicleGarage_remove_owner(account) ELSE owners
    /\ UNCHANGED <<storage, contributors, vehicles, promises>>

remove_vehicle(predecessor, vehicle) ==
    LET result == remove_vehicle_result(predecessor, vehicle) IN
    /\ last' = Call("remove_vehicle", predecessor, vehicle, result)
    /\ promises' = IF result = OK
                   THEN Dispatch(Chain("on_vehicle_removed", vehicle, 0))
                   ELSE promises
    /\ UNCHANGED <<storage, owners, contributors, vehicles>>

\* results is what ContractPromise.getResults() would give: the code does not
\* read it.
on_vehicle_removed(origin, vehicle, results) ==
    /\ last' = [Call("on_vehicle_removed", origin, vehicle, OK)
                   EXCEPT !.status = IF Len(results) = 0 THEN 0 ELSE results[1],
                          !.was = VehicleGarage_has_vehicle(vehicle)]
    /\ vehicles' = on_vehicle_removed_vehicles(vehicle)
    /\ UNCHANGED <<storage, owners, contributors>>

----------------------------------------------------------------------------
(* The platform: it settles a dispatched chain with either outcome, then  *)
(* runs the chain's callback with that outcome as the promise result.     *)

Settle(chain, outcome) ==
    /\ chain.status = 0
    /\ promises' = Take(chain) (+) SetToBag({[chain EXCEPT !.status = outcome]})
    /\ last' = [Call("settle", contractName, chain.vehicle, OK) EXCEPT !.status = outcome]
    /\ UNCHANGED <<storage, owners, contributors, vehicles>>

DeliverVehicleCreated(chain) ==
    /\ chain.method = "on_vehicle_created"
    /\ chain.status # 0
    /\ on_vehicle_created(contractName, chain.vehicle, <<chain.status>>)
    /\ promises' = Take(chain)

DeliverVehicleRemoved(chain) ==
    /\ chain.method = "on_vehicle_removed"
    /\ chain.status # 0
    /\ on_vehicle_removed(contractName, chain.vehicle, <<chain.status>>)
    /\ promises' = Take(chain)

\* Both callbacks are exported functions: any account can call them, on
\* their own (no promise results) or as the callback of a chain it built.
CallVehicleCreated(vehicle, results) ==
    /\ on_vehicle_created(External, vehicle, results)
    /\ UNCHANGED promises

CallVehicleRemoved(vehicle, results) ==
    /\ on_vehicle_removed(External, vehicle, results)
    /\ UNCHANGED promises

ResultLists == {<<>>} \cup {<<s>> : s \in StatusValues}
\* on_vehicle_removed reads no promise result: a call on its own and one with
\* a pending result stand for all the calls from outside
RemovedResultLists == {<<>>, <<0>>}

----------------------------------------------------------------------------
(* The state machine *)

Init ==
    /\ storage = [k \in {} |-> NoGarage]
    /\ owners = {}
    /\ contributors = {}
    /\ vehicles = {}
    /\ promises = EmptyBag
    /\ last = Call("deploy", contractName, <<>>, OK)

\* the calls of the accounts and the steps of the platform
OwnNext ==
    \/ \E d \in Deposits, t \in Timestamps, n \in GarageNames, o \in OwnerLists :
          init(d, t, n, o)
    \/ get_vehicle_garage
    \/ get_owner_list
    \/ get_vehicle_list
    \/ get_vehicle_count
    \/ \E p \in Callers : add_myself_as_contributor(p)
    \/ \E p \in Callers : remove_myself_as_contributor(p)
    \/ \E p \in Callers, d \in Deposits, v \in VehicleNames :
          InFlight < MaxInFlight /\ add_vehicle(p, d, v)
    \/ \E p \in Callers, a \in Callers : add_contributor(p, a)
    \/ \E p \in Callers, a \in Callers : remove_contributor(p, a)
    \/ \E p \in Callers, a \in Callers : add_owner(p, a)
    \/ \E p \in Callers, a \in Callers : remove_owner(p, a)
    \/ \E p \in Callers, v \in VehicleNames :
          InFlight < MaxInFlight /\ remove_vehicle(p, v)
    \/ \E c \in BagToSet(promises), outcome \in {1, 2} : Settle(c, outcome)
    \/ \E c \in BagToSet(promises) : DeliverVehicleCreated(c)
    \/ \E c \in BagToSet(promises) : DeliverVehicleRemoved(c)

\* the callbacks called from outside
ExternalNext ==
    \/ \E v \in CallbackNames, r \in ResultLists : CallVehicleCreated(v, r)
    \/ \E v \in CallbackNames, r \in RemovedResultLists : CallVehicleRemoved(v, r)

Next == OwnNext \/ ExternalNext

Spec == Init /\ [][Next]_vars

\* the contract when only the platform runs the callbacks
SpecOwn == Init /\ [][OwnNext]_vars

----------------------------------------------------------------------------
(* Requests followed to their end: alice, the owner, asks for vehicles    *)
(* with the minimum deposit, at most MaxRequests times in all, and a      *)
(* chain whose callback has run stays in promises, marked "done" with the *)
(* outcome it settled with.                                               *)

Done(chain) == [chain EXCEPT !.method = "done"]
ChainsFor(vehicle) == {c \in BagToSet(promises) : c.vehicle = vehicle}
Requests(vehicle) ==
    IF ChainsFor(vehicle) = {} THEN 0
    ELSE BagCardinality([c \in ChainsFor(vehicle) |-> promises[c]])
Confirmed(vehicle) == \E c \in ChainsFor(vehicle) : c.method = "done" /\ c.status = 1
AllDone == \A c \in BagToSet(promises) : c.method = "done"

DeliverAndKeep(chain) ==
    /\ chain.method = "on_vehicle_created"
    /\ chain.status # 0
    /\ on_vehicle_created(contractName, chain.vehicle, <<chain.status>>)
    /\ promises' = Take(chain) (+) SetToBag({Done(chain)})

InitOnce == init(MIN_ACCOUNT_BALANCE, 1, <<"m">>, <<alice>>)

\* The platform creates an account once: the batch of a chain (create_account
\* first) succeeds only if no chain for the same account has succeeded.
Created(vehicle) == \E c \in ChainsFor(vehicle) : c.status = 1

SettleCreate(chain, outcome) ==
    /\ chain.method = "on_vehicle_created"
    /\ outcome = 1 => ~Created(chain.vehicle)
    /\ Settle(chain, outcome)

PairNames == {car1, car2}

RequestsNext ==
    \/ InitOnce
    \/ \E v \in PairNames :
          InFlight < MaxRequests /\ add_vehicle(alice, MIN_ACCOUNT_BALANCE, v)
    \/ \E c \in BagToSet(promises), outcome \in {1, 2} : SettleCreate(c, outcome)
    \/ \E c \in BagToSet(promises) : DeliverAndKeep(c)
    \/ get_vehicle_count

SpecRequests == Init /\ [][RequestsNext]_vars

----------------------------------------------------------------------------
(* The chains under a fair platform: every dispatched chain settles, and  *)
(* the callback of every settled chain is delivered.                      *)

Methods == {"on_vehicle_created", "on_vehicle_removed"}
Chains == {Chain(m, v, s) : m \in Methods, v \in VehicleNames, s \in 0..2}

ChainNext ==
    \/ InitOnce
    \/ \E p \in Callers : add_myself_as_contributor(p)
    \/ \E p \in Callers, v \in VehicleNames :
          InFlight < MaxInFlight /\ add_vehicle(p, MIN_ACCOUNT_BALANCE, v)
    \/ \E p \in Callers, v \in VehicleNames :
          InFlight < MaxInFlight /\ remove_vehicle(p, v)
    \/ \E c \in BagToSet(promises), outcome \in {1, 2} : Settle(c, outcome)
    \/ \E c \in BagToSet(promises) : DeliverVehicleCreated(c)
    \/ \E c \in BagToSet(promises) : DeliverVehicleRemoved(c)

PlatformIsFair ==
    \A c \in Chains :
        /\ WF_vars(BagIn(c, promises) /\ \E outcome \in {1, 2} : Settle(c, outcome))
        /\ WF_vars(BagIn(c, promises) /\ DeliverVehicleCreated(c))
        /\ WF_vars(BagIn(c, promises) /\ DeliverVehicleRemoved(c))

SpecFair == Init /\ [][ChainNext]_vars /\ PlatformIsFair

----------------------------------------------------------------------------
(* The claims *)

AllNames == VehicleNames \cup CallbackNames
Authorized(account) == account \in owners \cup contributors
OwnerOps == {"add_owner", "remove_owner", "add_contributor", "remove_contributor"}

\* C1: a vehicle identifier enters vehicles only in a step that runs
\* on_vehicle_created for that identifier with a successful promise result;
\* add_vehicle's own turn leaves vehicles alone, and a run with a failed
\* result leaves an absent identifier absent.
C1_AddedOnlyOnConfirmation ==
    [][/\ \A id \in AllNames :
            (~VehicleGarage_has_vehicle(id) /\ VehicleGarage_has_vehicle(id)') =>
                /\ last'.op = "on_vehicle_created"
                /\ last'.arg = id
                /\ last'.result = OK
                /\ last'.status = 1
       /\ last'.op = "add_vehicle" => vehicles' = vehicles
       /\ \A id \in AllNames :
            (last'.op = "on_vehicle_created" /\ last'.arg = id /\ last'.status = 2
                /\ ~VehicleGarage_has_vehicle(id)) => ~VehicleGarage_has_vehicle(id)'
      ]_vars

C1_Witness ==
    /\ last.op = "on_vehicle_created"
    /\ last.caller = contractName
    /\ last.status = 1
    /\ VehicleGarage_has_vehicle(last.arg)

\* C2: with owners = {alice} and no vehicles, alice's add_vehicle(car1) with
\* the minimum deposit succeeds, dispatches the chain and leaves car1 out of
\* vehicles; the platform's on_vehicle_created(car1) with a successful result
\* then puts car1 in vehicles and makes the vehicle count 1.
C2_ProvisioningScenario ==
    [][/\ (/\ is_initialized /\ owners = {alice} /\ vehicles = {}
           /\ last'.op = "add_vehicle" /\ last'.caller = alice /\ last'.arg = car1
           /\ last'.deposit >= MIN_ACCOUNT_BALANCE) =>
                /\ last'.result = OK
                /\ ~VehicleGarage_has_vehicle(car1)'
                /\ promises' = Dispatch(Chain("on_vehicle_created", car1, 0))
       /\ (/\ is_initialized /\ owners = {alice} /\ vehicles = {}
           /\ last'.op = "on_vehicle_created" /\ last'.caller = contractName
           /\ last'.arg = car1 /\ last'.status = 1) =>
                /\ VehicleGarage_has_vehicle(car1)'
                /\ VehicleGarage_get_vehicles_count' = 1
      ]_vars

C2_Witness ==
    /\ owners = {alice}
    /\ last.op = "on_vehicle_created"
    /\ last.caller = contractName
    /\ last.arg = car1
    /\ last.status = 1
    /\ VehicleGarage_has_vehicle(car1)
    /\ VehicleGarage_get_vehicles_count = 1

\* C3: on_vehicle_created run with a promise result that is pending, failed
\* or of any status other than 1 leaves the registry as it was: storage,
\* owners, contributors, vehicles and the vehicle count.
C3_UnsuccessfulCallbackChangesNothing ==
    [][(last'.op = "on_vehicle_created" /\ last'.result = OK /\ last'.status # 1) =>
            /\ UNCHANGED registry
            /\ \A id \in AllNames :
                    VehicleGarage_has_vehicle(id)' = VehicleGarage_has_vehicle(id)
            /\ VehicleGarage_get_vehicles_count' = VehicleGarage_get_vehicles_count
      ]_vars

C3_Witness ==
    /\ last.op = "on_vehicle_created"
    /\ last.caller = contractName
    /\ last.result = OK
    /\ last.status = 2
    /\ ~VehicleGarage_has_vehicle(last.arg)
    /\ VehicleGarage_get_vehicles_count = 0

\* C4: add_vehicle by an owner or contributor, with the minimum deposit, for
\* an identifier that is in vehicles fails with "Vehicle name already
\* exists", dispatches nothing and changes nothing.
C4_DuplicateRejected ==
    [][(/\ last'.op = "add_vehicle"
        /\ is_initialized
        /\ Authorized(last'.caller)
        /\ last'.deposit >= MIN_ACCOUNT_BALANCE
        /\ VehicleGarage_has_vehicle(last'.arg)) =>
            /\ last'.result = ERR_VEHICLE_EXISTS
            /\ promises' = promises
            /\ UNCHANGED registry
      ]_vars

\* C5: add_vehicle dispatches a chain only for a caller who is an owner or
\* a contributor at that moment; on an initialized registry any other caller
\* gets the contributor-or-owner failure, nothing is dispatched and owners,
\* contributors and vehicles stay as they were.
C5_UnauthorizedAddVehicle ==
    [][last'.op = "add_vehicle" =>
            /\ promises' # promises => Authorized(last'.caller)
            /\ ~Authorized(last'.caller) =>
                /\ is_initialized => last'.result = ERR_NOT_CONTRIBUTOR_OR_OWNER
                /\ last'.result # OK
                /\ promises' = promises
                /\ UNCHANGED <<owners, contributors, vehicles>>
      ]_vars

C5_Witness ==
    /\ last.op = "add_vehicle"
    /\ last.caller = bob
    /\ last.deposit >= MIN_ACCOUNT_BALANCE
    /\ last.arg = car1
    /\ last.result = ERR_NOT_CONTRIBUTOR_OR_OWNER
    /\ owners = {alice}
    /\ promises = EmptyBag

\* C6: once the registry is initialized, every call of init, whatever its
\* name, owners and deposit, fails with "Contract is already initialized."
\* and leaves storage (name, created_at), owners, contributors and vehicles
\* as they were.
C6_SecondInitFails ==
    [][(last'.op = "init" /\ is_initialized) =>
            /\ last'.result = ERR_ALREADY_INITIALIZED
            /\ UNCHANGED registry
      ]_vars

C6_Witness ==
    /\ last.op = "init"
    /\ last.result = ERR_ALREADY_INITIALIZED
    /\ is_initialized
    /\ owners # {}

\* C7: right after a successful init(name, owners), the owners set is the
\* set of the accounts of the list it was given, and a get_owner_list that
\* comes next succeeds and returns exactly that set.
C7_InitThenOwnerList ==
    [][/\ (last'.op = "init" /\ last'.result = OK) =>
            VehicleGarage_get_owner_list' = Range(last'.owners_arg)
       /\ (last.op = "init" /\ last.result = OK /\ last'.op = "get_owner_list") =>
            /\ last'.result = OK
            /\ last'.list = Range(last.owners_arg)
      ]_vars

C7_Witness ==
    /\ last.op = "get_owner_list"
    /\ last.follows
    /\ last.owners_arg = <<alice, alice>>
    /\ last.result = OK
    /\ last.list = {alice}

\* C8 as stated: a successful addition of account a as a contributor and
\* then a successful removal of a leave is_contributor(a) as it was before
\* the addition.
C8_AddRemoveRestores ==
    [][(/\ last.op \in AddContributorOps /\ last.result = OK
        /\ last'.op \in RemoveContributorOps /\ last'.result = OK
        /\ last'.arg = last.arg) =>
            VehicleGarage_is_contributor(last.arg)' = last.was
      ]_vars

\* C8 as amended: a successful addition of account a as a contributor and
\* then a successful removal of a leave a out of contributors; that is a's
\* membership before the addition exactly when a was no contributor then.
C8_AddRemoveLeavesOut ==
    [][(/\ last.op \in AddContributorOps /\ last.result = OK
        /\ last'.op \in RemoveContributorOps /\ last'.result = OK
        /\ last'.arg = last.arg) =>
            /\ ~VehicleGarage_is_contributor(last.arg)'
            /\ (VehicleGarage_is_contributor(last.arg)' = last.was) = ~last.was
      ]_vars

C8_Witness ==
    /\ last.op \in RemoveContributorOps
    /\ last.result = OK
    /\ last.follows
    /\ ~last.was_before
    /\ ~VehicleGarage_is_contributor(last.arg)

\* C9: a call that fails a validation changes nothing and dispatches
\* nothing: init with a deposit below the minimum, an empty owners list or a
\* blank name leaves the registry uninitialized with owners, contributors
\* and vehicles empty; add_vehicle with a deposit below the minimum or an
\* invalid account name leaves registry and promises as they were.
C9_ValidationFailureChangesNothing ==
    [][/\ (last'.op = "init" /\ last'.result \in
                {ERR_MIN_BALANCE_INIT, ERR_NO_OWNER, ERR_BLANK_NAME}) =>
            /\ UNCHANGED registry
            /\ promises' = promises
            /\ ~is_initialized'
            /\ owners' = {} /\ contributors' = {} /\ vehicles' = {}
       /\ (last'.op = "add_vehicle" /\ last'.result \in
                {ERR_MIN_BALANCE_VEHICLE, ERR_INVALID_ACCOUNT}) =>
            /\ UNCHANGED registry
            /\ promises' = promises
      ]_vars

\* C10: on an initialized registry add_owner, remove_owner, add_contributor
\* and remove_contributor succeed only for a caller who is an owner; for any
\* other caller they fail with the owner failure and leave owners and
\* contributors as they were.
C10_OwnerOnlyRoleChanges ==
    [][last'.op \in OwnerOps =>
            /\ last'.result = OK => VehicleGarage_has_owner(last'.caller)
            /\ <<owners, contributors>>' # <<owners, contributors>> =>
                    VehicleGarage_has_owner(last'.caller)
            /\ ~VehicleGarage_has_owner(last'.caller) =>
                /\ is_initialized => last'.result = ERR_NOT_OWNER
                /\ last'.result # OK
                /\ UNCHANGED <<owners, contributors>>
      ]_vars

C10_Witness ==
    /\ last.op \in OwnerOps
    /\ last.caller = bob
    /\ last.arg = bob
    /\ last.result = ERR_NOT_OWNER
    /\ owners = {alice}
    /\ contributors = {bob}

\* C11: on an initialized registry add_myself_as_contributor and
\* remove_myself_as_contributor succeed for every caller, whatever the
\* caller's role; the caller is a contributor after the first and none after
\* the second; every other account's contributor membership, owners,
\* vehicles, storage and the promises stay as they were.
C11_SelfServiceContributor ==
    [][(/\ last'.op \in {"add_myself_as_contributor", "remove_myself_as_contributor"}
        /\ is_initialized) =>
            /\ last'.result = OK
            /\ last'.arg = last'.caller
            /\ last'.op = "add_myself_as_contributor" => last'.caller \in contributors'
            /\ last'.op = "remove_myself_as_contributor" => last'.caller \notin contributors'
            /\ contributors' \ {last'.caller} = contributors \ {last'.caller}
            /\ UNCHANGED <<storage, owners, vehicles, promises>>
      ]_vars

C11_Witness ==
    /\ last.op = "add_myself_as_contributor"
    /\ last.caller = bob
    /\ last.result = OK
    /\ ~last.was
    /\ owners = {alice}
    /\ contributors = {alice, bob}

\* C12: remove_vehicle dispatches a chain (the one that deletes the account
\* and calls on_vehicle_removed back) only for a caller who is in owners;
\* on an initialized registry any other caller, a contributor included, gets
\* the owner failure and nothing is dispatched; the turn of remove_vehicle
\* itself never changes vehicles.
C12_RemoveVehicleOwnerOnly ==
    [][last'.op = "remove_vehicle" =>
            /\ promises' # promises =>
                    /\ VehicleGarage_has_owner(last'.caller)
                    /\ promises' = Dispatch(Chain("on_vehicle_removed", last'.arg, 0))
            /\ (/\ is_initialized
                /\ VehicleGarage_has_owner(last'.caller)
                /\ isValidAccountID(full_account_for(last'.arg))) =>
                    /\ last'.result = OK
                    /\ promises' # promises
            /\ ~VehicleGarage_has_owner(last'.caller) =>
                    /\ is_initialized => last'.result = ERR_NOT_OWNER
                    /\ last'.result # OK
                    /\ promises' = promises
            /\ vehicles' = vehicles
            /\ UNCHANGED registry
      ]_vars

C12_Witness ==
    /\ last.op = "remove_vehicle"
    /\ last.caller = bob
    /\ last.arg = car1
    /\ last.result = ERR_NOT_OWNER
    /\ owners = {alice}
    /\ contributors = {bob}
    /\ vehicles = {car1}
    /\ promises = EmptyBag

\* C13: after every run of on_vehicle_removed(id), whether the chain's
\* delete step succeeded, failed or is pending, and whether id was in
\* vehicles or not, id is not in vehicles; no other identifier and nothing
\* else of the registry changes.
C13_RemovedWhateverTheOutcome ==
    [][last'.op = "on_vehicle_removed" =>
            /\ last'.arg \notin vehicles'
            /\ vehicles' = vehicles \ {last'.arg}
            /\ UNCHANGED <<storage, owners, contributors>>
      ]_vars

C13_Witness ==
    /\ last.op = "on_vehicle_removed"
    /\ last.caller = contractName
    /\ last.arg = car1
    /\ last.status = 2
    /\ last.was
    /\ ~VehicleGarage_has_vehicle(car1)

\* C14: vehicles follows the child accounts: an identifier enters vehicles
\* only when the platform delivers on_vehicle_created for it with a
\* successful creation, and leaves vehicles only when the platform delivers
\* on_vehicle_removed for it with a successful deletion.
C14_MembershipFollowsConfirmation ==
    [][\A id \in AllNames :
            /\ (id \notin vehicles /\ id \in vehicles') =>
                    /\ last'.op = "on_vehicle_created"
                    /\ last'.arg = id
                    /\ last'.status = 1
            /\ (id \in vehicles /\ id \notin vehicles') =>
                    /\ last'.op = "on_vehicle_removed"
                    /\ last'.arg = id
                    /\ last'.status = 1
      ]_vars

\* C15: vehicles changes in a run of on_vehicle_created or on_vehicle_removed
\* only when the platform runs it as the callback of a chain the contract
\* dispatched; a run started by another account never changes vehicles.
C15_OnlyOwnCallbacksChangeVehicles ==
    [][(/\ last'.op \in {"on_vehicle_created", "on_vehicle_removed"}
        /\ last'.caller # contractName) =>
            vehicles' = vehicles
      ]_vars

\* C16: the set operations of the registry are idempotent and no error.
\* Adding an account that is in owners or contributors, or an identifier that
\* is in vehicles, and removing one that is not in the set, returns and
\* leaves the registry and the vehicle count as they were; a call that passed
\* its guards never fails on the set operation; the same addition or the
\* same removal made twice in a row leaves what the first one left.
SetOps == OwnerOps \cup AddContributorOps \cup RemoveContributorOps
              \cup {"on_vehicle_created", "on_vehicle_removed"}

C16_SetOperationsIdempotent ==
    [][/\ (last'.op = "add_owner" /\ last'.result = OK /\ last'.arg \in owners) =>
                UNCHANGED registry
       /\ (last'.op = "remove_owner" /\ last'.result = OK /\ last'.arg \notin owners) =>
                UNCHANGED registry
       /\ (last'.op \in AddContributorOps /\ last'.result = OK
                /\ last'.arg \in contributors) => UNCHANGED registry
       /\ (last'.op \in RemoveContributorOps /\ last'.result = OK
                /\ last'.arg \notin contributors) => UNCHANGED registry
       /\ (last'.op = "on_vehicle_created" /\ last'.status = 1 /\ last'.arg \in vehicles) =>
                /\ last'.result = OK
                /\ UNCHANGED registry
                /\ VehicleGarage_get_vehicles_count' = VehicleGarage_get_vehicles_count
       /\ (last'.op = "on_vehicle_removed" /\ last'.arg \notin vehicles) =>
                /\ last'.result = OK
                /\ UNCHANGED registry
                /\ VehicleGarage_get_vehicles_count' = VehicleGarage_get_vehicles_count
       /\ (last'.op \in OwnerOps /\ is_initialized
                /\ VehicleGarage_has_owner(last'.caller)) => last'.result = OK
       /\ (last'.op \in {"add_myself_as_contributor", "remove_myself_as_contributor"}
                /\ is_initialized) => last'.result = OK
       /\ (/\ last'.op \in SetOps /\ last'.op = last.op /\ last'.arg = last.arg
           /\ last'.result = OK /\ last.result = OK
           /\ last'.op = "on_vehicle_created" => (last'.status = 1 /\ last.status = 1)) =>
                UNCHANGED registry
      ]_vars

C16_Witness ==
    /\ last.op = "remove_contributor"
    /\ last.caller = alice
    /\ last.arg = bob
    /\ ~last.was
    /\ last.result = OK
    /\ contributors = {alice}
    /\ owners = {alice}

\* C17: once a successful init stored it, the VehicleGarage (name
\* and created_at) never changes and stays stored, whichever function runs:
\* a role change, add_vehicle, remove_vehicle, a callback, another init or a
\* getter; and get_vehicle_garage returns it.
C17_NameAndCreatedAtFrozen ==
    [][(VEHICLE_GARAGE_KEY \in DOMAIN storage) =>
            /\ VEHICLE_GARAGE_KEY \in DOMAIN (storage')
            /\ storage' = storage
            /\ VehicleGarage_get'.name = VehicleGarage_get.name
            /\ VehicleGarage_get'.created_at = VehicleGarage_get.created_at
            /\ (last'.op = "get_vehicle_garage") =>
                    /\ last'.result = OK
                    /\ last'.garage = VehicleGarage_get
      ]_vars

C17_Witness ==
    /\ last.op = "init"
    /\ last.result = ERR_ALREADY_INITIALIZED
    /\ is_initialized
    /\ VehicleGarage_get.name = <<"m">>
    /\ VehicleGarage_get.created_at = 1
    /\ vehicles = {car1}

\* C18: with one request for each of two distinct identifiers, however the
\* two dispatch turns, the two settlements and the two callbacks interleave,
\* an identifier is in vehicles exactly when its own chain succeeded and its
\* callback has run; once both callbacks have run vehicles is the set of the
\* identifiers whose chain succeeded, whatever became of the other request.
C18_PairOutcomeIndependent ==
    /\ \A v \in PairNames : VehicleGarage_has_vehicle(v) <=> Confirmed(v)
    /\ (AllDone /\ \A v \in PairNames : Requests(v) = 1) =>
            vehicles = {v \in PairNames : Confirmed(v)}

C18_Witness ==
    /\ AllDone
    /\ Requests(car1) = 1
    /\ Requests(car2) = 1
    /\ Confirmed(car1)
    /\ ~Confirmed(car2)
    /\ last.op = "on_vehicle_created"
    /\ last.arg = car1
    /\ vehicles = {car1}

\* C19: a second add_vehicle for an identifier whose first chain has not been
\* called back yet passes the duplicate check and dispatches a second chain;
\* with the platform creating the account at most once, at most one of the
\* two chains is confirmed, the other callback finds a failed result, and
\* when both callbacks have run the identifier is in vehicles exactly if one
\* chain was confirmed, the vehicle count having risen by at most 1.
Pending(vehicle) ==
    /\ ChainsFor(vehicle) # {}
    /\ \A c \in ChainsFor(vehicle) : c.method = "on_vehicle_created"

C19_SameIdentifierTwice ==
    [][\A v \in PairNames :
        /\ (last'.op = "add_vehicle" /\ last'.arg = v /\ Pending(v)) =>
                /\ last'.result = OK
                /\ promises' = Dispatch(Chain("on_vehicle_created", v, 0))
                /\ Requests(v)' = Requests(v) + 1
        /\ (Requests(v)' >= 2 /\ AllDone') =>
                /\ \E c \in ChainsFor(v)' : c.status = 2
                /\ VehicleGarage_has_vehicle(v)' <=> Confirmed(v)'
                /\ VehicleGarage_get_vehicles_count' =
                        Cardinality({w \in PairNames : Confirmed(w)'})
                /\ last'.op = "get_vehicle_count" =>
                        last'.count = Cardinality({w \in PairNames : Confirmed(w)})
      ]_vars

C19_Witness ==
    /\ Requests(car1) = 2
    /\ AllDone
    /\ Confirmed(car1)
    /\ \E c \in ChainsFor(car1) : c.status = 2
    /\ last.op = "get_vehicle_count"
    /\ last.count = 1
    /\ vehicles = {car1}

\* C20: under a fair platform the callback of a chain runs only when the
\* chain has settled and takes the chain out of the chains in flight, so it
\* runs once; every add_vehicle that dispatched leads to a run of
\* on_vehicle_created for its vehicle and every remove_vehicle that
\* dispatched to a run of on_vehicle_removed; a chain that created its
\* account leads to the identifier in vehicles, a chain that deleted it to
\* the identifier out of vehicles.
Delivered(method, vehicle) ==
    last.op = method /\ last.caller = contractName /\ last.arg = vehicle
Settled(method, vehicle) == BagIn(Chain(method, vehicle, 1), promises)

C20_CallbackOnceAfterSettlement ==
    /\ [][\A m \in Methods :
            (last'.op = m /\ last'.caller = contractName) =>
                \E c \in BagToSet(promises) :
                    /\ c.method = m
                    /\ c.vehicle = last'.arg
                    /\ c.status # 0
                    /\ c.status = last'.status
                    /\ promises' = Take(c)
         ]_vars
    /\ \A v \in VehicleNames :
        /\ (last.op = "add_vehicle" /\ last.arg = v /\ last.result = OK)
                ~> Delivered("on_vehicle_created", v)
        /\ (last.op = "remove_vehicle" /\ last.arg = v /\ last.result = OK)
                ~> Delivered("on_vehicle_removed", v)
        /\ Settled("on_vehicle_created", v) ~> VehicleGarage_has_vehicle(v)
        /\ Settled("on_vehicle_removed", v) ~> ~VehicleGarage_has_vehicle(v)

C20_Witness ==
    /\ Delivered("on_vehicle_removed", car1)
    /\ last.status = 1
    /\ last.was
    /\ ~VehicleGarage_has_vehicle(car1)
    /\ promises = EmptyBag

\* C21: the roles are looked at in the dispatch turn alone.  add_vehicle and
\* remove_vehicle dispatch only for a caller who holds the role then; the
\* callback the platform delivers commits whatever owners and contributors
\* have become since: on_vehicle_created adds the identifier on a successful
\* result (and only then), on_vehicle_removed removes it.
C21_RolesCheckedAtDispatchOnly ==
    [][/\ (last'.op = "add_vehicle" /\ promises' # promises) => Authorized(last'.caller)
       /\ (last'.op = "remove_vehicle" /\ promises' # promises) =>
                VehicleGarage_has_owner(last'.caller)
       /\ (last'.op = "on_vehicle_created" /\ last'.caller = contractName) =>
                /\ last'.result = OK
                /\ vehicles' = IF last'.status = 1
                               THEN vehicles \cup {last'.arg}
                               ELSE vehicles
       /\ (last'.op = "on_vehicle_removed" /\ last'.caller = contractName) =>
                vehicles' = vehicles \ {last'.arg}
      ]_vars

C21_Witness ==
    /\ last.op = "on_vehicle_created"
    /\ last.caller = contractName
    /\ last.arg = car1
    /\ last.status = 1
    /\ is_initialized
    /\ owners = {}
    /\ contributors = {}
    /\ VehicleGarage_has_vehicle(car1)

\* C22: remove_owner has no floor of one.  Called by an owner it takes the
\* account out of owners, be it the last owner or the caller; once owners is
\* empty on an initialized registry it is empty ever after, and add_owner,
\* remove_owner, add_contributor, remove_contributor and remove_vehicle fail
\* with the owner failure for every caller.
C22_NoFloorOfOne ==
    [][/\ (/\ last'.op = "remove_owner" /\ is_initialized
           /\ VehicleGarage_has_owner(last'.caller)
           /\ VehicleGarage_has_owner(last'.arg)) =>
                /\ last'.result = OK
                /\ owners' = owners \ {last'.arg}
       /\ (is_initialized /\ owners = {}) =>
                /\ owners' = {}
                /\ is_initialized'
                /\ last'.op \in OwnerOps \cup {"remove_vehicle"} =>
                        /\ last'.result = ERR_NOT_OWNER
                        /\ UNCHANGED registry
                        /\ promises' = promises
      ]_vars

C22_Witness ==
    /\ last.op = "add_owner"
    /\ last.caller = alice
    /\ last.arg = alice
    /\ last.result = ERR_NOT_OWNER
    /\ is_initialized
    /\ owners = {}
    /\ contributors = {alice}

\* C23: while the registry is not initialized, every function other than a
\* successful init either fails with "Contract must be initialized first."
\* or leaves owners, contributors and vehicles as they were, and as long as
\* it stays uninitialized the three sets are empty.
C23_UninitializedStaysEmpty ==
    [][~is_initialized =>
            /\ (last'.op # "init" /\ last'.op # "settle") =>
                    \/ last'.result = ERR_NOT_INITIALIZED
                    \/ UNCHANGED <<owners, contributors, vehicles>>
            /\ ~is_initialized' =>
                    (owners' = {} /\ contributors' = {} /\ vehicles' = {})
      ]_vars

\* C24: every step touches its own target alone.  on_vehicle_created(id) and
\* on_vehicle_removed(id) change at most whether id is in vehicles: every
\* other identifier, owners, contributors and storage stay; the functions
\* that change owners or contributors never change vehicles (nor the set
\* that is not theirs); the four getters change nothing, and
\* get_vehicle_count returns the number of distinct identifiers of
\* get_vehicle_list.
Getters == {"get_vehicle_garage", "get_owner_list", "get_vehicle_list", "get_vehicle_count"}

C24_StepsTouchTheirTargetOnly ==
    [][/\ last'.op \in {"on_vehicle_created", "on_vehicle_removed"} =>
                /\ vehicles' \ {last'.arg} = vehicles \ {last'.arg}
                /\ UNCHANGED <<storage, owners, contributors>>
       /\ last'.op \in {"add_owner", "remove_owner"} =>
                /\ owners' \ {last'.arg} = owners \ {last'.arg}
                /\ UNCHANGED <<storage, contributors, vehicles, promises>>
       /\ last'.op \in AddContributorOps \cup RemoveContributorOps =>
                /\ contributors' \ {last'.arg} = contributors \ {last'.arg}
                /\ UNCHANGED <<storage, owners, vehicles, promises>>
       /\ last'.op \in Getters =>
                /\ UNCHANGED <<storage, owners, contributors, vehicles, promises>>
       /\ (last'.op = "get_vehicle_list" /\ last'.result = OK) =>
                last'.list = vehicles
       /\ (last'.op = "get_vehicle_count" /\ last'.result = OK) =>
                last'.count = Cardinality(VehicleGarage_get_vehicles_list)
      ]_vars

C24_Witness ==
    /\ last.op = "on_vehicle_removed"
    /\ last.arg = car1
    /\ last.was
    /\ vehicles = {car1sub}
    /\ owners = {alice}
    /\ contributors = {bob}

====
